---- MODULE Spec2Model ----
(***************************************************************************)
(* The expression type checker of the compiler's type-checking pass        *)
(* (compiler/passes/src/type_checker/check_expressions.rs): the Director's *)
(* visit_* methods, return_incorrect_type, and the checker state they act  *)
(* on: the negate flag and the append-only diagnostic sink.                *)
(*                                                                         *)
(* A check is a recursive walk.  VisitExpression(e, expected, path, st)    *)
(* is the walk of node e, written as the code writes it; st is the checker *)
(* state threaded through the walk in the order the code runs.  The        *)
(* actions are the ways the pass enters the walk.                          *)
(***************************************************************************)
EXTENDS Integers, Sequences, FiniteSets, TLC

VARIABLES
    negate,     \* TypeChecker.negate
    sink,       \* the handler's diagnostics, in emission order
    log,        \* history: one entry per visit_expression call, in call order
    expr,       \* the expression last handed to the walk (NoExpr: none yet)
    expect,     \* the expected type it was handed with
    entry,      \* [negate, mark]: the flag and the sink length at the call
    ret,        \* what the call returned
    pair        \* a call of return_incorrect_type: its arguments and result

vars == <<negate, sink, log, expr, expect, entry, ret, pair>>

(***************************************************************************)
(* Types.  Option<Type> is a type name or None.                            *)
(***************************************************************************)
None == "None"

SignedTypes == {"i8", "i16", "i32", "i64", "i128"}

UnsignedTypes == {"u8", "u16", "u32", "u64", "u128"}

IntegerTypes == SignedTypes \cup UnsignedTypes

MagnitudeTypes == {"u8", "u16", "u32"}

PrimitiveTypes == {"address", "boolean", "field", "group", "scalar", "string"}

(***************************************************************************)
(* Decimal texts are sequences of one-character strings.                   *)
(***************************************************************************)
Digits == {"0", "1", "2", "3", "4", "5", "6", "7", "8", "9"}

DigitVal(c) ==
    CASE c = "0" -> 0 [] c = "1" -> 1 [] c = "2" -> 2 [] c = "3" -> 3
      [] c = "4" -> 4 [] c = "5" -> 5 [] c = "6" -> 6 [] c = "7" -> 7
      [] c = "8" -> 8 [] c = "9" -> 9

RECURSIVE StripZeros(_)
StripZeros(ds) ==
    IF Len(ds) > 1 /\ ds[1] = "0" THEN StripZeros(Tail(ds)) ELSE ds

RECURSIVE LexLeq(_, _)
LexLeq(a, b) ==
    IF a = <<>> THEN TRUE
    ELSE IF DigitVal(a[1]) # DigitVal(b[1]) THEN DigitVal(a[1]) < DigitVal(b[1])
    ELSE LexLeq(Tail(a), Tail(b))

\* a <= b for two digit sequences without leading zeros
MagLeq(a, b) ==
    \/ Len(a) < Len(b)
    \/ Len(a) = Len(b) /\ LexLeq(a, b)

\* iN::MAX and uN::MAX
MaxText(ty) ==
    CASE ty = "i8" -> <<"1","2","7">>
      [] ty = "i16" -> <<"3","2","7","6","7">>
      [] ty = "i32" -> <<"2","1","4","7","4","8","3","6","4","7">>
      [] ty = "i64" -> <<"9","2","2","3","3","7","2","0","3","6","8","5","4","7","7","5","8","0","7">>
      [] ty = "i128" -> <<"1","7","0","1","4","1","1","8","3","4","6","0","4","6","9","2","3","1","7","3","1","6","8","7","3","0","3","7","1","5","8","8","4","1","0","5","7","2","7">>
      [] ty = "u8" -> <<"2","5","5">>
      [] ty = "u16" -> <<"6","5","5","3","5">>
      [] ty = "u32" -> <<"4","2","9","4","9","6","7","2","9","5">>
      [] ty = "u64" -> <<"1","8","4","4","6","7","4","4","0","7","3","7","0","9","5","5","1","6","1","5">>
      [] ty = "u128" -> <<"3","4","0","2","8","2","3","6","6","9","2","0","9","3","8","4","6","3","4","6","3","3","7","4","6","0","7","4","3","1","7","6","8","2","1","1","4","5","5">>

\* the magnitude of iN::MIN
MinText(ty) ==
    CASE ty = "i8" -> <<"1","2","8">>
      [] ty = "i16" -> <<"3","2","7","6","8">>
      [] ty = "i32" -> <<"2","1","4","7","4","8","3","6","4","8">>
      [] ty = "i64" -> <<"9","2","2","3","3","7","2","0","3","6","8","5","4","7","7","5","8","0","8">>
      [] ty = "i128" -> <<"1","7","0","1","4","1","1","8","3","4","6","0","4","6","9","2","3","1","7","3","1","6","8","7","3","0","3","7","1","5","8","8","4","1","0","5","7","2","8">>

(***************************************************************************)
(* str::parse::<T>() for an integer type T: an optional sign (a '-' only   *)
(* for a signed T), then at least one digit; the value is accumulated      *)
(* digit by digit and every step is overflow-checked, so the parse fails   *)
(* as soon as a prefix is out of T's range.                                *)
(***************************************************************************)
ParseOk(text, ty) ==
    LET minus == text # <<>> /\ text[1] = "-"
        plus == text # <<>> /\ text[1] = "+"
        body == IF minus \/ plus THEN Tail(text) ELSE text
        limit == IF minus THEN MinText(ty) ELSE MaxText(ty)
    IN  /\ minus => ty \in SignedTypes
        /\ body # <<>>
        /\ \A i \in 1..Len(body) : body[i] \in Digits
        /\ \A i \in 1..Len(body) : MagLeq(StripZeros(SubSeq(body, 1, i)), limit)

\* format!("-{str_content}") under the negate flag, str_content.clone() otherwise
MaybeNegate(str_content, neg) ==
    IF neg THEN <<"-">> \o str_content ELSE str_content

\* a variant that parses the text as written, whatever the flag
ParsedTextUnsigned(ty, str_content, neg) == str_content

\* the text visit_literal parses for an integer literal of type ty
ParsedText(ty, str_content, neg) ==
    IF ty \in SignedTypes THEN MaybeNegate(str_content, neg) ELSE str_content

(***************************************************************************)
(* The checker state threaded through a walk, and what a visit returns.    *)
(***************************************************************************)
State(n, s, l) == [negate |-> n, sink |-> s, log |-> l]

Result(t, st) == [ty |-> t, st |-> st]

\* A span is a node of the expression tree (its path from the root) or a
\* declaration of the symbol table.
NodeSpan(path) == [at |-> "node", path |-> path, name |-> ""]

DeclSpan(name) == [at |-> "decl", path |-> <<>>, name |-> name]

\* A diagnostic: its kind, its span, the node whose visit emitted it (by),
\* and the kind's arguments.
Diag(kind, span, by, a, b, n, m) ==
    [kind |-> kind, span |-> span, by |-> by, a |-> a, b |-> b, n |-> n, m |-> m]

\* TypeChecker::emit_err / handler.emit_err: the sink is append-only
EmitErr(st, d) == [st EXCEPT !.sink = Append(@, d)]

(***************************************************************************)
(* The symbol table the pass is handed: a fixed sample of declarations.    *)
(***************************************************************************)
Variables ==
    [x |-> "u8", y |-> "u16", b |-> "boolean", g |-> "group", s |-> "scalar"]

Circuits ==
    [Token |-> <<[name |-> "a", ty |-> "field"], [name |-> "b", ty |-> "boolean"]>>]

Functions ==
    [f0 |-> [input |-> <<>>, output |-> "field"],
     f1 |-> [input |-> <<"u8">>, output |-> "boolean"],
     f2 |-> [input |-> <<"u8", "boolean">>, output |-> "field"]]

Types == PrimitiveTypes \cup IntegerTypes \cup DOMAIN Circuits

OptionTypes == Types \cup {None}

\* The core instructions: arity, permitted first and second argument types,
\* return type, by <<type name, function name>>.
CoreInstructions ==
    [hash |-> [ty |-> "BHP256", num_args |-> 1,
               first |-> {"field", "group", "scalar"} \cup IntegerTypes,
               second |-> {}, ret |-> "field"],
     commit |-> [ty |-> "Pedersen64", num_args |-> 2,
                 first |-> {"boolean", "u8", "u16", "u32", "u64"},
                 second |-> {"scalar"}, ret |-> "group"]]

(***************************************************************************)
(* The checker's assertions (type_checker/checker.rs).                     *)
(***************************************************************************)
\* reconcile an actual type with an optional expected one: a mismatch is
\* reported and the expected type wins
AssertExpectedOption(st, actual, exp, span, by) ==
    IF exp # None /\ actual # exp
    THEN Result(exp, EmitErr(st, Diag("type_should_be", span, by, actual, exp, 0, 0)))
    ELSE Result(actual, st)

\* reconcile an optional type with a required one: the required type is returned
AssertExpectedType(st, type_, exp, span, by) ==
    IF type_ # None /\ type_ # exp
    THEN Result(exp, EmitErr(st, Diag("type_should_be", span, by, type_, exp, 0, 0)))
    ELSE Result(exp, st)

\* an optional type, when known, must be one of a set of types
AssertOneOfTypes(st, type_, allowed, what, span, by) ==
    IF type_ # None /\ type_ \notin allowed
    THEN EmitErr(st, Diag("expected_one_type_of", span, by, type_, what, 0, 0))
    ELSE st

AssertBoolIntType(st, t, span, by) ==
    AssertOneOfTypes(st, t, {"boolean"} \cup IntegerTypes, "boolean, integer", span, by)

AssertFieldGroupScalarIntType(st, t, span, by) ==
    AssertOneOfTypes(st, t, {"field", "group", "scalar"} \cup IntegerTypes,
                     "field, group, scalar, integer", span, by)

AssertFieldGroupIntType(st, t, span, by) ==
    AssertOneOfTypes(st, t, {"field", "group"} \cup IntegerTypes,
                     "field, group, integer", span, by)

AssertFieldIntType(st, t, span, by) ==
    AssertOneOfTypes(st, t, {"field"} \cup IntegerTypes, "field, integer", span, by)

AssertIntType(st, t, span, by) ==
    AssertOneOfTypes(st, t, IntegerTypes, "integer", span, by)

AssertSignedIntType(st, t, span, by) ==
    AssertOneOfTypes(st, t, SignedTypes, "signed integer", span, by)

AssertMagnitudeType(st, t, span, by) ==
    AssertOneOfTypes(st, t, MagnitudeTypes, "u8, u16, u32", span, by)

AssertFieldGroupType(st, t, span, by) ==
    AssertOneOfTypes(st, t, {"field", "group"}, "field, group", span, by)

AssertFieldScalarType(st, t, span, by) ==
    AssertOneOfTypes(st, t, {"field", "scalar"}, "field, scalar", span, by)

\* two optional types, when both known, must be the same type
AssertEqTypes(st, t1, t2, span, by) ==
    IF t1 # None /\ t2 # None /\ t1 # t2
    THEN EmitErr(st, Diag("type_should_be", span, by, t1, t2, 0, 0))
    ELSE st

\* a variant that yields the second type when no type is expected
return_incorrect_type_second(t1, t2, exp) ==
    IF t1 # None /\ t2 # None
    THEN IF t1 = t2 THEN t1
         ELSE IF exp # None /\ t1 # exp THEN t1 ELSE t2
    ELSE None

(***************************************************************************)
(* return_incorrect_type: the type two independently checked operands      *)
(* yield together.                                                         *)
(***************************************************************************)
return_incorrect_type(t1, t2, exp) ==
    IF t1 # None /\ t2 # None
    THEN IF t1 = t2 THEN t1
         ELSE IF exp # None
              THEN IF t1 # exp THEN t1 ELSE t2
              ELSE t1
    ELSE None

(***************************************************************************)
(* The walk.                                                               *)
(***************************************************************************)
RECURSIVE VisitExpression(_, _, _, _)
RECURSIVE VisitAccess(_, _, _, _)
RECURSIVE VisitBinary(_, _, _, _)
RECURSIVE VisitUnary(_, _, _, _)
RECURSIVE VisitTernary(_, _, _, _)
RECURSIVE VisitCall(_, _, _, _)
RECURSIVE VisitCircuitInit(_, _, _, _)
RECURSIVE VisitArguments(_, _, _, _, _)
RECURSIVE VisitMembers(_, _, _, _, _)

\* the history entry of one visit_expression call: what it was entered with
\* (node, expected type, flag, sink length) and, once it has returned, what it
\* left (type, flag, sink length)
Visit(path, e, exp, st) ==
    [path |-> path, node |-> e, expected |-> exp, negate |-> st.negate,
     from |-> Len(st.sink), returned |-> FALSE, ty |-> None, after |-> st.negate,
     to |-> Len(st.sink)]

Returned(v, r) ==
    [v EXCEPT !.returned = TRUE, !.ty = r.ty, !.after = r.st.negate, !.to = Len(r.st.sink)]

VisitIdentifier(var, exp, path, st) ==
    IF var.name \in DOMAIN Circuits
    THEN AssertExpectedOption(st, var.name, exp, DeclSpan(var.name), path)
    ELSE IF var.name \in DOMAIN Variables
    THEN AssertExpectedOption(st, Variables[var.name], exp, DeclSpan(var.name), path)
    ELSE Result(None, EmitErr(st, Diag("unknown_sym", NodeSpan(path), path,
                                       "variable", var.name, 0, 0)))

\* check_int_parsed: the diagnostic is emitted when the parse is an error
CheckIntParsed(st, is_err, ty, path) ==
    IF is_err
    THEN EmitErr(st, Diag("invalid_int_value", NodeSpan(path), path, ty, "", 0, 0))
    ELSE st

\* the type of a literal that is not an integer
LiteralType(lit) ==
    CASE lit = "Address" -> "address"
      [] lit = "Boolean" -> "boolean"
      [] lit = "Field" -> "field"
      [] lit = "Group" -> "group"
      [] lit = "Scalar" -> "scalar"
      [] lit = "String" -> "string"

VisitLiteral(e, exp, path, st) ==
    IF e.lit = "Integer"
    THEN LET int == ParsedText(e.ty, e.text, st.negate)
             s1 == CheckIntParsed(st, ~ParseOk(int, e.ty), e.ty, path)
         IN  AssertExpectedOption(s1, e.ty, exp, NodeSpan(path), path)
    ELSE AssertExpectedOption(st, LiteralType(e.lit), exp, NodeSpan(path), path)

VisitAccess(e, exp, path, st) ==
    IF e.variant = "AssociatedFunction"
    THEN IF e.name \in DOMAIN CoreInstructions /\ CoreInstructions[e.name].ty = e.ty
         THEN LET core == CoreInstructions[e.name]
                  s0 == IF core.num_args # Len(e.args)
                        THEN EmitErr(st, Diag("incorrect_num_args_to_call", NodeSpan(path),
                                              path, "", "", core.num_args, Len(e.args)))
                        ELSE st
                  s1 == IF Len(e.args) >= 1
                        THEN LET r == VisitExpression(e.args[1], None, path \o <<1>>, s0)
                             IN  AssertOneOfTypes(r.st, r.ty, core.first, "first",
                                                  NodeSpan(path), path)
                        ELSE s0
                  s2 == IF Len(e.args) >= 2
                        THEN LET r == VisitExpression(e.args[2], None, path \o <<2>>, s1)
                             IN  AssertOneOfTypes(r.st, r.ty, core.second, "second",
                                                  NodeSpan(path), path)
                        ELSE s1
              IN  AssertExpectedOption(s2, core.ret, exp, NodeSpan(path), path)
         ELSE Result(None, EmitErr(st, Diag("invalid_access_expression", NodeSpan(path),
                                            path, e.ty, e.name, 0, 0)))
    ELSE Result(None, st)

\* a variant that gives up on the later sibling once the earlier one failed
ThenVisitUnlessFailed(r1, e, exp, path) ==
    IF r1.ty = None THEN Result(None, r1.st) ELSE VisitExpression(e, exp, path, r1.st)

\* the visit of a later sibling, entered in the state an earlier sibling's
\* visit (r1) left
ThenVisit(r1, e, exp, path) == VisitExpression(e, exp, path, r1.st)

\* both operands checked against the destination, then return_incorrect_type
EqualTypeRule(input, destination, path, s0) ==
    LET r1 == VisitExpression(input.left, destination, path \o <<1>>, s0)
        r2 == ThenVisit(r1, input.right, destination, path \o <<2>>)
    IN  Result(return_incorrect_type(r1.ty, r2.ty, destination), r2.st)

\* the type the other operand of a group multiplication must have
MulOtherType == "scalar"

\* a variant that looks for the group operand on the left only
MulGroupOperandLeft(t1, t2) == IF t1 = "group" THEN 1 ELSE 0

\* the match on (t1, t2): which operand is the group one, the left one first
MulGroupOperand(t1, t2) ==
    IF t1 = "group" THEN 1 ELSE IF t2 = "group" THEN 2 ELSE 0

VisitMul(input, destination, path, st) ==
    LET span == NodeSpan(path)
        s0 == AssertFieldGroupIntType(st, destination, span, path)
        r1 == VisitExpression(input.left, None, path \o <<1>>, s0)
        r2 == ThenVisit(r1, input.right, None, path \o <<2>>)
    IN  IF MulGroupOperand(r1.ty, r2.ty) = 1
        THEN AssertExpectedType(
                 AssertExpectedType(r2.st, r2.ty, MulOtherType,
                                    NodeSpan(path \o <<2>>), path).st,
                 destination, "group", span, path)
        ELSE IF MulGroupOperand(r1.ty, r2.ty) = 2
        THEN AssertExpectedType(
                 AssertExpectedType(r2.st, r1.ty, MulOtherType,
                                    NodeSpan(path \o <<1>>), path).st,
                 destination, "group", span, path)
        ELSE Result(return_incorrect_type(r1.ty, r2.ty, destination),
                    AssertFieldIntType(r2.st, destination, span, path))

VisitPow(input, destination, path, st) ==
    LET span == NodeSpan(path)
        s0 == AssertFieldIntType(st, destination, span, path)
        r1 == VisitExpression(input.left, None, path \o <<1>>, s0)
        r2 == ThenVisit(r1, input.right, None, path \o <<2>>)
    IN  IF r1.ty = "field"
        THEN AssertExpectedType(
                 AssertExpectedType(r2.st, r2.ty, "field",
                                    NodeSpan(path \o <<2>>), path).st,
                 destination, "field", span, path)
        ELSE IF r2.ty = "field"
        THEN AssertExpectedType(
                 AssertExpectedType(r2.st, r1.ty, "field",
                                    NodeSpan(path \o <<1>>), path).st,
                 destination, "field", span, path)
        ELSE IF r1.ty # None
        THEN AssertExpectedType(
                 AssertMagnitudeType(r2.st, r2.ty, NodeSpan(path \o <<2>>), path),
                 destination, r1.ty, span, path)
        ELSE Result(destination,
                    AssertMagnitudeType(r2.st, r2.ty, NodeSpan(path \o <<2>>), path))

VisitEq(input, destination, path, st) ==
    LET r1 == VisitExpression(input.left, None, path \o <<1>>, st)
        r2 == ThenVisit(r1, input.right, None, path \o <<2>>)
        s3 == IF r1.ty \in IntegerTypes
              THEN AssertIntType(r2.st, r2.ty, NodeSpan(path \o <<1>>), path)
              ELSE IF r2.ty \in IntegerTypes
              THEN AssertIntType(r2.st, r1.ty, NodeSpan(path \o <<2>>), path)
              ELSE AssertEqTypes(r2.st, r1.ty, r2.ty, NodeSpan(path), path)
    IN  AssertExpectedType(s3, destination, "boolean", NodeSpan(path), path)

\* a variant that compares whatever the operands are
VisitCompareUnchecked(input, destination, path, st) ==
    LET r1 == VisitExpression(input.left, None, path \o <<1>>, st)
        r2 == VisitExpression(input.right, None, path \o <<2>>, r1.st)
    IN  AssertExpectedType(r2.st, destination, "boolean", NodeSpan(path), path)

VisitCompare(input, destination, path, st) ==
    LET r1 == VisitExpression(input.left, None, path \o <<1>>, st)
        r2 == ThenVisit(r1, input.right, None, path \o <<2>>)
        t1 == r1.ty
        t2 == r2.ty
        lspan == NodeSpan(path \o <<1>>)
        rspan == NodeSpan(path \o <<2>>)
        s3 == IF t1 = "address"
              THEN AssertExpectedType(r2.st, t2, "address", lspan, path).st
              ELSE IF t2 = "address"
              THEN AssertExpectedType(r2.st, t1, "address", rspan, path).st
              ELSE IF t1 = "field"
              THEN AssertExpectedType(r2.st, t2, "field", lspan, path).st
              ELSE IF t2 = "field"
              THEN AssertExpectedType(r2.st, t1, "field", rspan, path).st
              ELSE IF t1 = "scalar"
              THEN AssertExpectedType(r2.st, t2, "scalar", lspan, path).st
              ELSE IF t2 = "scalar"
              THEN AssertExpectedType(r2.st, t1, "scalar", rspan, path).st
              ELSE IF t1 \in IntegerTypes
              THEN AssertIntType(r2.st, t2, lspan, path)
              ELSE IF t2 \in IntegerTypes
              THEN AssertIntType(r2.st, t1, rspan, path)
              ELSE r2.st
    IN  AssertExpectedType(s3, destination, "boolean", NodeSpan(path), path)

VisitShift(input, destination, path, st) ==
    LET s0 == AssertIntType(st, destination, NodeSpan(path), path)
        r1 == VisitExpression(input.left, destination, path \o <<1>>, s0)
        r2 == ThenVisit(r1, input.right, None, path \o <<2>>)
        s3 == AssertMagnitudeType(r2.st, r2.ty, NodeSpan(path \o <<2>>), path)
    IN  Result(return_incorrect_type(r1.ty, r2.ty, destination), s3)

LogicalOps == {"And", "Or", "Nand", "Nor"}

BitwiseOps == {"BitwiseAnd", "BitwiseOr", "Xor"}

EqOps == {"Eq", "Neq"}

CompareOps == {"Lt", "Gt", "Lte", "Gte"}

WrappedOps == {"AddWrapped", "SubWrapped", "DivWrapped", "MulWrapped"}

ShiftOps == {"Shl", "ShlWrapped", "Shr", "ShrWrapped", "PowWrapped"}

BinaryOperations ==
    LogicalOps \cup BitwiseOps \cup {"Add", "Sub", "Mul", "Div", "Pow"} \cup EqOps
        \cup CompareOps \cup WrappedOps \cup ShiftOps

VisitBinary(input, destination, path, st) ==
    LET span == NodeSpan(path)
    IN  CASE input.op \in LogicalOps ->
                EqualTypeRule(input, destination, path,
                    AssertExpectedOption(st, "boolean", destination, span, path).st)
          [] input.op \in BitwiseOps ->
                EqualTypeRule(input, destination, path,
                    AssertBoolIntType(st, destination, span, path))
          [] input.op = "Add" ->
                EqualTypeRule(input, destination, path,
                    AssertFieldGroupScalarIntType(st, destination, span, path))
          [] input.op = "Sub" ->
                EqualTypeRule(input, destination, path,
                    AssertFieldGroupIntType(st, destination, span, path))
          [] input.op = "Mul" -> VisitMul(input, destination, path, st)
          [] input.op = "Div" ->
                EqualTypeRule(input, destination, path,
                    AssertFieldIntType(st, destination, span, path))
          [] input.op = "Pow" -> VisitPow(input, destination, path, st)
          [] input.op \in EqOps -> VisitEq(input, destination, path, st)
          [] input.op \in CompareOps -> VisitCompare(input, destination, path, st)
          [] input.op \in WrappedOps ->
                EqualTypeRule(input, destination, path,
                    AssertIntType(st, destination, span, path))
          [] input.op \in ShiftOps -> VisitShift(input, destination, path, st)

\* a variant that flips the flag
SetNegateToggled(st) == [st EXCEPT !.negate = ~st.negate]

\* self.visitor.negate = true
SetNegate(st) == [st EXCEPT !.negate = TRUE]

\* a variant that leaves the flag as the operand's check left it
RestoreNegateSkipped(st, prior_negate_state) == st

\* self.visitor.negate = prior_negate_state
RestoreNegate(st, prior_negate_state) == [st EXCEPT !.negate = prior_negate_state]

NegatableTypes == SignedTypes \cup {"field", "group"}

VisitNegate(input, destination, path, st) ==
    LET prior_negate_state == st.negate
        r == VisitExpression(input.receiver, destination, path \o <<1>>, SetNegate(st))
        s1 == RestoreNegate(r.st, prior_negate_state)
    IN  IF r.ty # None /\ r.ty \notin NegatableTypes
        THEN Result(r.ty, EmitErr(s1, Diag("type_is_not_negatable",
                                           NodeSpan(path \o <<1>>), path, r.ty, "", 0, 0)))
        ELSE Result(r.ty, s1)

UnaryOperations ==
    {"Abs", "AbsWrapped", "Double", "Inverse", "Negate", "Not", "Square", "SquareRoot"}

VisitUnary(input, destination, path, st) ==
    LET span == NodeSpan(path)
        receiver(s0) == VisitExpression(input.receiver, destination, path \o <<1>>, s0)
    IN  CASE input.op \in {"Abs", "AbsWrapped"} ->
                receiver(AssertSignedIntType(st, destination, span, path))
          [] input.op = "Double" ->
                receiver(AssertFieldGroupType(st, destination, span, path))
          [] input.op \in {"Inverse", "Square"} ->
                receiver(AssertExpectedType(st, destination, "field", span, path).st)
          [] input.op = "Negate" -> VisitNegate(input, destination, path, st)
          [] input.op = "Not" ->
                receiver(AssertBoolIntType(st, destination, span, path))
          [] input.op = "SquareRoot" ->
                receiver(AssertFieldScalarType(st, destination, span, path))

VisitTernary(input, exp, path, st) ==
    LET r0 == VisitExpression(input.condition, "boolean", path \o <<1>>, st)
        r1 == ThenVisit(r0, input.if_true, exp, path \o <<2>>)
        r2 == ThenVisit(r1, input.if_false, exp, path \o <<3>>)
    IN  Result(return_incorrect_type(r1.ty, r2.ty, exp), r2.st)

\* a variant that reports only a call with too many arguments
ArityMismatchTooMany(n, m) == n < m

\* func.input.len() != input.arguments.len()
ArityMismatch(n, m) == n # m

\* the pairs func.input.iter().zip(input.arguments.iter()) yields
ZipLen(n, m) == IF n < m THEN n ELSE m

\* arguments i..last, each against its declared parameter type
VisitArguments(params, arguments, i, path, st) ==
    IF i > ZipLen(Len(params), Len(arguments))
    THEN st
    ELSE VisitArguments(params, arguments, i + 1, path,
             VisitExpression(arguments[i], params[i], path \o <<i>>, st).st)

VisitCall(input, exp, path, st) ==
    IF input.function.k = "Identifier"
    THEN IF input.function.name \in DOMAIN Functions
         THEN LET func == Functions[input.function.name]
                  ret0 == AssertExpectedOption(st, func.output, exp,
                                               DeclSpan(input.function.name), path)
                  s1 == IF ArityMismatch(Len(func.input), Len(input.arguments))
                        THEN EmitErr(ret0.st, Diag("incorrect_num_args_to_call",
                                 NodeSpan(path), path, "", "",
                                 Len(func.input), Len(input.arguments)))
                        ELSE ret0.st
              IN  Result(ret0.ty, VisitArguments(func.input, input.arguments, 1, path, s1))
         ELSE Result(None, EmitErr(st, Diag("unknown_sym", NodeSpan(path \o <<0>>), path,
                                            "function", input.function.name, 0, 0)))
    ELSE VisitExpression(input.function, exp, path \o <<0>>, st)

\* a variant that takes the first initializer without comparing names
FindMemberFirst(members, name) == IF members = <<>> THEN 0 ELSE 1

\* input.members.iter().find(|member| member.identifier.name == name.name):
\* the position of the first initializer of that name, 0 when there is none
FindMember(members, name) ==
    LET hits == {i \in 1..Len(members) : members[i].identifier = name}
    IN  IF hits = {} THEN 0 ELSE CHOOSE i \in hits : \A j \in hits : i <= j

\* a variant that walks the initializers in the order they were written,
\* checking each against the declared member of its name
RECURSIVE VisitMembersWritten(_, _, _, _, _)
VisitMembersWritten(circ, input, i, path, st) ==
    IF i > Len(input.members)
    THEN st
    ELSE LET decl == {k \in DOMAIN circ : circ[k].name = input.members[i].identifier}
             s1 == IF decl # {} /\ input.members[i].expression.k # "NoExpr"
                   THEN VisitExpression(input.members[i].expression,
                                        circ[CHOOSE k \in decl : TRUE].ty,
                                        path \o <<i>>, st).st
                   ELSE st
         IN  VisitMembersWritten(circ, input, i + 1, path, s1)

\* declared members i..last, in declaration order
VisitMembers(circ, input, i, path, st) ==
    IF i > Len(circ)
    THEN st
    ELSE LET at == FindMember(input.members, circ[i].name)
             s1 == IF at # 0
                   THEN IF input.members[at].expression.k # "NoExpr"
                        THEN VisitExpression(input.members[at].expression, circ[i].ty,
                                             path \o <<at>>, st).st
                        ELSE st
                   ELSE EmitErr(st, Diag("unknown_sym", DeclSpan(circ[i].name), path,
                                         "circuit member variable", circ[i].name, 0, 0))
         IN  VisitMembers(circ, input, i + 1, path, s1)

\* reconcile the circuit's nominal type with the expected type
AssertExpectedCircuit(st, circuit, exp, span, by) ==
    AssertExpectedOption(st, circuit, exp, span, by)

VisitCircuitInit(input, additional, path, st) ==
    IF input.name \in DOMAIN Circuits
    THEN LET circ == Circuits[input.name]
             ret0 == AssertExpectedCircuit(st, input.name, additional,
                                           NodeSpan(path \o <<0>>), path)
             s1 == IF Len(circ) # Len(input.members)
                   THEN EmitErr(ret0.st, Diag("incorrect_num_circuit_members",
                            NodeSpan(path), path, "", "", Len(circ), Len(input.members)))
                   ELSE ret0.st
         IN  Result(ret0.ty, VisitMembers(circ, input, 1, path, s1))
    ELSE Result(None, EmitErr(st, Diag("unknown_sym", NodeSpan(path \o <<0>>), path,
                                       "circuit or record", input.name, 0, 0)))

\* visit_err: an Err placeholder is not checked
VisitErr(e, exp, path, st) == Result(None, st)

\* visit_expression: the pre-visit hook of the checker is the default one, which
\* always descends; dispatch on the variant
VisitExpression(e, exp, path, st) ==
    LET at == Len(st.log) + 1
        s0 == [st EXCEPT !.log = Append(@, Visit(path, e, exp, st))]
        r == CASE e.k = "Access" -> VisitAccess(e, exp, path, s0)
               [] e.k = "Identifier" -> VisitIdentifier(e, exp, path, s0)
               [] e.k = "Literal" -> VisitLiteral(e, exp, path, s0)
               [] e.k = "Binary" -> VisitBinary(e, exp, path, s0)
               [] e.k = "Call" -> VisitCall(e, exp, path, s0)
               [] e.k = "CircuitInit" -> VisitCircuitInit(e, exp, path, s0)
               [] e.k = "Err" -> VisitErr(e, exp, path, s0)
               [] e.k = "Ternary" -> VisitTernary(e, exp, path, s0)
               [] e.k = "Unary" -> VisitUnary(e, exp, path, s0)
    IN  Result(r.ty, [r.st EXCEPT !.log[at] = Returned(@, r)])

(***************************************************************************)
(* The expressions the pass hands to the walk.                             *)
(***************************************************************************)
Lit(lit) == [k |-> "Literal", lit |-> lit, ty |-> "", text |-> <<>>]

IntLit(ty, text) == [k |-> "Literal", lit |-> "Integer", ty |-> ty, text |-> text]

Ident(name) == [k |-> "Identifier", name |-> name]

Bin(op, l, r) == [k |-> "Binary", op |-> op, left |-> l, right |-> r]

Un(op, r) == [k |-> "Unary", op |-> op, receiver |-> r]

Tern(c, t, f) == [k |-> "Ternary", condition |-> c, if_true |-> t, if_false |-> f]

CallOf(f, args) == [k |-> "Call", function |-> f, arguments |-> args]

Member(name, e) == [identifier |-> name, expression |-> e]

InitOf(name, members) == [k |-> "CircuitInit", name |-> name, members |-> members]

AccessOf(variant, ty, name, args) ==
    [k |-> "Access", variant |-> variant, ty |-> ty, name |-> name, args |-> args]

ErrExpr == [k |-> "Err"]

\* no expression: a shorthand initializer, and the call not made yet
NoExpr == [k |-> "NoExpr"]

\* bounds of the model
MaxNegDepth == 2

MaxArgs == 3

MaxPrior == 1

\* the decimal successor of a digit sequence
RECURSIVE Succ(_)
Succ(ds) ==
    IF ds = <<>> THEN <<"1">>
    ELSE LET last == ds[Len(ds)]
             init == SubSeq(ds, 1, Len(ds) - 1)
         IN  IF last = "9" THEN Succ(init) \o <<"0">>
             ELSE init \o <<CHOOSE c \in Digits : DigitVal(c) = DigitVal(last) + 1>>

\* literal texts: small ones, ones with leading zeros, and the limits of every
\* integer type with their successors
LiteralTexts ==
    {<<"0">>, <<"0", "0">>, <<"1">>, <<"0", "1", "2", "8">>, <<"0", "2", "5", "6">>}
        \cup {MaxText(t) : t \in IntegerTypes}
        \cup {Succ(MaxText(t)) : t \in IntegerTypes}
        \cup {Succ(MinText(t)) : t \in SignedTypes}

IntegerLiterals == {IntLit(t, text) : t \in IntegerTypes, text \in LiteralTexts}

OtherLiterals == {Lit(l) : l \in {"Address", "Boolean", "Field", "Group", "Scalar", "String"}}

Identifiers == {Ident(n) : n \in {"x", "y", "b", "g", "s", "Token", "zz"}}

\* operands: one of every type the rules tell apart, and the failing ones
Leaves ==
    {Lit("Boolean"), Lit("Field"), Lit("Group"), Lit("Scalar"), Lit("Address"),
     IntLit("u8", <<"1">>), IntLit("u16", <<"1">>), IntLit("i8", <<"1", "2", "8">>),
     IntLit("u8", <<"2", "5", "6">>), Ident("x"), Ident("zz"), ErrExpr}

RECURSIVE Negated(_, _)
Negated(e, n) == IF n = 0 THEN e ELSE Un("Negate", Negated(e, n - 1))

\* what is put under negate operators
NegLeaves ==
    {IntLit("i8", <<"1", "2", "8">>), IntLit("u8", <<"1">>), Lit("Field"), Ident("zz"),
     Bin("Add", Ident("x"), IntLit("i8", <<"1", "2", "8">>)),
     Tern(Lit("Boolean"), IntLit("i8", <<"1", "2", "8">>), IntLit("i8", <<"1", "2", "9">>)),
     CallOf(Ident("f1"), <<IntLit("i8", <<"1", "2", "8">>)>>),
     InitOf("Token", <<Member("a", IntLit("i8", <<"1", "2", "8">>))>>)}

Negations == {Negated(e, n) : e \in NegLeaves, n \in 1..MaxNegDepth}

Nested ==
    {Bin("Mul", Ident("x"), IntLit("u16", <<"1">>)),
     Bin("Mul", Lit("Group"), Lit("Scalar")),
     Bin("Add", IntLit("u8", <<"2", "5", "6">>), Lit("Field")),
     Tern(Ident("zz"), IntLit("u8", <<"1">>), IntLit("u16", <<"1">>)),
     CallOf(Ident("f1"), <<Un("Negate", IntLit("i8", <<"1", "2", "8">>))>>),
     CallOf(Ident("nofn"), <<>>)}

Operands == Leaves \cup Nested \cup {Negated(e, 1) : e \in NegLeaves}

ExpectedSample == {None, "boolean", "field", "group", "u8", "u16", "i8", "Token"}

BinaryOperands ==
    Leaves \cup {Negated(IntLit("i8", <<"1", "2", "8">>), 1), Negated(Ident("zz"), 1),
                 Bin("Mul", Ident("x"), IntLit("u16", <<"1">>)),
                 Bin("Mul", Lit("Group"), Lit("Scalar"))}

BinaryExpected == {None, "boolean", "field", "group", "u8"}

Conditions ==
    {Lit("Boolean"), Lit("Field"), Ident("zz"), Negated(IntLit("i8", <<"1", "2", "8">>), 1)}

UnaryRoots ==
    {Un(op, r) : op \in UnaryOperations, r \in Operands \cup Negations}
        \cup {Negated(l, n) : l \in IntegerLiterals, n \in 1..MaxNegDepth}

\* all sequences over S of length at most n
RECURSIVE SeqsUpTo(_, _)
SeqsUpTo(S, n) ==
    IF n = 0 THEN {<<>>}
    ELSE LET shorter == SeqsUpTo(S, n - 1)
         IN  shorter \cup {Append(q, x) : q \in shorter, x \in S}

Arguments ==
    {IntLit("u8", <<"1">>), Lit("Boolean"), Negated(IntLit("i8", <<"1", "2", "8">>), 1)}

Callees == {Ident("f0"), Ident("f1"), Ident("f2"), Ident("nofn"), Lit("Field")}

Initializers ==
    {Member("a", Lit("Field")), Member("a", Lit("Boolean")), Member("b", Lit("Boolean")),
     Member("c", Lit("Field")), Member("a", NoExpr), Member("b", Lit("Field"))}

Accesses ==
    {AccessOf("Member", "", "", <<>>), AccessOf("Tuple", "", "", <<>>)}
        \cup {AccessOf("AssociatedFunction", t, n, args) :
                 t \in {"BHP256", "Pedersen64"}, n \in {"hash", "commit", "nofn"},
                 args \in SeqsUpTo({IntLit("u8", <<"1">>), Lit("Scalar"), Ident("zz")}, MaxArgs)}

NoPair == [t1 |-> None, t2 |-> None, expected |-> None, out |-> "unset"]

(***************************************************************************)
(* The pass.  The checker is constructed with the flag clear and an empty  *)
(* sink; the statement checks around an expression may have reported       *)
(* already; the pass then hands a root expression to visit_expression.     *)
(***************************************************************************)
Init ==
    /\ negate = FALSE
    /\ sink = <<>>
    /\ log = <<>>
    /\ expr = NoExpr
    /\ expect = None
    /\ entry = [negate |-> FALSE, mark |-> 0]
    /\ ret = None
    /\ pair = NoPair

\* a diagnostic of the pass reported before the expression is checked
EarlierDiagnostic ==
    /\ expr = NoExpr
    /\ Len(sink) < MaxPrior
    /\ sink' = Append(sink, Diag("statement", DeclSpan("statement"), <<>>, "", "", 0, 0))
    /\ UNCHANGED <<negate, log, expr, expect, entry, ret, pair>>

\* one call of visit_expression on a root expression, run to its return
Check(e, exp) ==
    LET r == VisitExpression(e, exp, <<>>, State(negate, sink, log))
    IN  /\ expr' = e
        /\ expect' = exp
        /\ entry' = [negate |-> negate, mark |-> Len(sink)]
        /\ ret' = r.ty
        /\ negate' = r.st.negate
        /\ sink' = r.st.sink
        /\ log' = r.st.log
        /\ UNCHANGED pair

CheckLiteral ==
    /\ expr = NoExpr
    /\ \E e \in IntegerLiterals \cup OtherLiterals, exp \in OptionTypes : Check(e, exp)

CheckIdentifier ==
    /\ expr = NoExpr
    /\ \E e \in Identifiers, exp \in OptionTypes : Check(e, exp)

CheckAccess ==
    /\ expr = NoExpr
    /\ \E e \in Accesses, exp \in {None, "field", "group"} : Check(e, exp)

CheckBinary ==
    /\ expr = NoExpr
    /\ \E op \in BinaryOperations, l \in BinaryOperands, r \in BinaryOperands,
          exp \in BinaryExpected : Check(Bin(op, l, r), exp)

CheckUnary ==
    /\ expr = NoExpr
    /\ \E e \in UnaryRoots, exp \in ExpectedSample : Check(e, exp)

CheckTernary ==
    /\ expr = NoExpr
    /\ \E c \in Conditions, t \in BinaryOperands, f \in BinaryOperands,
          exp \in BinaryExpected : Check(Tern(c, t, f), exp)

CheckCall ==
    /\ expr = NoExpr
    /\ \E f \in Callees, args \in SeqsUpTo(Arguments, MaxArgs),
          exp \in {None, "field", "boolean"} : Check(CallOf(f, args), exp)

CheckCircuitInit ==
    /\ expr = NoExpr
    /\ \E n \in {"Token", "Nope"}, members \in SeqsUpTo(Initializers, MaxArgs),
          exp \in {None, "Token", "field"} : Check(InitOf(n, members), exp)

CheckErr ==
    /\ expr = NoExpr
    /\ \E exp \in OptionTypes : Check(ErrExpr, exp)

Next ==
    \/ EarlierDiagnostic
    \/ CheckLiteral
    \/ CheckIdentifier
    \/ CheckAccess
    \/ CheckBinary
    \/ CheckUnary
    \/ CheckTernary
    \/ CheckCall
    \/ CheckCircuitInit
    \/ CheckErr

Spec == Init /\ [][Next]_vars

(***************************************************************************)
(* return_incorrect_type on its own: every combination of its arguments.   *)
(***************************************************************************)
InitPair ==
    /\ negate = FALSE
    /\ sink = <<>>
    /\ log = <<>>
    /\ expr = NoExpr
    /\ expect = None
    /\ entry = [negate |-> FALSE, mark |-> 0]
    /\ ret = None
    /\ pair \in [t1 : OptionTypes, t2 : OptionTypes, expected : OptionTypes, out : {"unset"}]

ReturnIncorrectType ==
    /\ pair.out = "unset"
    /\ pair' = [pair EXCEPT !.out = return_incorrect_type(pair.t1, pair.t2, pair.expected)]
    /\ UNCHANGED <<negate, sink, log, expr, expect, entry, ret>>

NextPair == ReturnIncorrectType

SpecPair == InitPair /\ [][NextPair]_vars

(***************************************************************************)
(* Properties.                                                             *)
(***************************************************************************)
\* the diagnostics a visit appended: those after the sink length it was entered
\* with, up to the length it left
Appended(v) == SubSeq(sink, v.from + 1, v.to)

\* the diagnostics of the call the pass made
NewDiags == SubSeq(sink, entry.mark + 1, Len(sink))

Count(ds, P(_)) == Cardinality({i \in DOMAIN ds : P(ds[i])})

IsMismatch(d) == d.kind \in {"type_should_be", "expected_one_type_of"}

\* the visits of the call
Visits == {log[i] : i \in DOMAIN log}

\* the visit of the node at a path, for a node that was visited
Visited(path) == \E v \in Visits : v.path = path

VisitAt(path) == CHOOSE v \in Visits : v.path = path

\* twice a decimal number: a digit's carry depends only on the digit to its right
Doubled(ds) ==
    LET n == Len(ds)
        carry(i) == IF i <= n /\ DigitVal(ds[i]) >= 5 THEN 1 ELSE 0
        body == [i \in 1..n |->
                    CHOOSE c \in Digits :
                        DigitVal(c) = (2 * DigitVal(ds[i]) + carry(i + 1)) % 10]
    IN  IF carry(1) = 1 THEN <<"1">> \o body ELSE body

RECURSIVE DoubledTimes(_, _)
DoubledTimes(ds, n) == IF n = 0 THEN ds ELSE DoubledTimes(Doubled(ds), n - 1)

\* the powers of two that bound the integer types
TwoTo7 == DoubledTimes(<<"1">>, 7)

TwoTo8 == Doubled(TwoTo7)

TwoTo15 == DoubledTimes(TwoTo8, 7)

TwoTo16 == Doubled(TwoTo15)

TwoTo24 == DoubledTimes(TwoTo16, 8)

TwoTo31 == DoubledTimes(TwoTo24, 7)

TwoTo32 == Doubled(TwoTo31)

TwoTo40 == DoubledTimes(TwoTo32, 8)

TwoTo48 == DoubledTimes(TwoTo40, 8)

TwoTo56 == DoubledTimes(TwoTo48, 8)

TwoTo63 == DoubledTimes(TwoTo56, 7)

TwoTo64 == Doubled(TwoTo63)

TwoTo72 == DoubledTimes(TwoTo64, 8)

TwoTo80 == DoubledTimes(TwoTo72, 8)

TwoTo88 == DoubledTimes(TwoTo80, 8)

TwoTo96 == DoubledTimes(TwoTo88, 8)

TwoTo104 == DoubledTimes(TwoTo96, 8)

TwoTo112 == DoubledTimes(TwoTo104, 8)

TwoTo120 == DoubledTimes(TwoTo112, 8)

TwoTo127 == DoubledTimes(TwoTo120, 7)

TwoTo128 == Doubled(TwoTo127)

\* 2^(w-1) for a signed type of width w, 2^w for an unsigned one
RangeEnd ==
    [i8 |-> TwoTo7, u8 |-> TwoTo8, i16 |-> TwoTo15, u16 |-> TwoTo16, i32 |-> TwoTo31,
     u32 |-> TwoTo32, i64 |-> TwoTo63, u64 |-> TwoTo64, i128 |-> TwoTo127,
     u128 |-> TwoTo128]

\* the value of the decimal text, negated when neg, lies in the range of ty
Representable(text, neg, ty) ==
    LET mag == StripZeros(text)
    IN  IF neg
        THEN IF ty \in SignedTypes THEN MagLeq(mag, RangeEnd[ty]) ELSE mag = <<"0">>
        ELSE ~MagLeq(RangeEnd[ty], mag)

IntegerLiteralVisits == {v \in Visits : v.node.k = "Literal" /\ v.node.lit = "Integer"}

\* the visit of an integer literal appended no invalid-integer-literal diagnostic
Accepted(v) == Count(Appended(v), LAMBDA d : d.kind = "invalid_int_value") = 0

\* C1, as claimed: an integer literal is accepted if and only if its text,
\* negated when the negate flag is set, is representable in its declared type,
\* for signed and unsigned types alike.
C1_Original ==
    \A v \in IntegerLiteralVisits :
        Accepted(v) <=> Representable(v.node.text, v.negate, v.node.ty)

\* C1, amended: an integer literal of a signed type is accepted if and only if
\* its text, negated when the negate flag is set, is representable in the type;
\* one of an unsigned type if and only if its text as written is representable,
\* whatever the flag.
C1_LiteralRange ==
    \A v \in IntegerLiteralVisits :
        Accepted(v) <=>
            Representable(v.node.text, v.negate /\ v.node.ty \in SignedTypes, v.node.ty)

\* the most negative i8 accepted under a negate, and 128 as u8 rejected
C1_Witness ==
    \/ /\ expr = Negated(IntLit("i8", <<"1", "2", "8">>), 1)
       /\ NewDiags = <<>>
    \/ /\ expr = IntLit("u8", <<"2", "5", "6">>)
       /\ expect = None
       /\ Len(NewDiags) = 1
       /\ NewDiags[1].kind = "invalid_int_value"

\* C2: the negate flag every visit_expression call leaves is the flag it was
\* entered with, at any depth; so a later operand is visited with the flag its
\* parent was entered with, whatever the earlier operands held.
C2_NegateRestored ==
    /\ expr # NoExpr => negate = entry.negate
    /\ \A v \in Visits : v.returned /\ v.after = v.negate
    /\ \A p \in Visits, c \in Visits :
          (Len(c.path) = Len(p.path) + 1
              /\ SubSeq(c.path, 1, Len(p.path)) = p.path
              /\ ~(p.node.k = "Unary" /\ p.node.op = "Negate"))
          => c.negate = p.negate

\* a binary expression whose left operand is a negate that emitted a
\* diagnostic: the right operand was visited with the flag clear
C2_Witness ==
    /\ expr.k = "Binary"
    /\ expr.left = Negated(Ident("zz"), 1)
    /\ Visited(<<1, 1>>) /\ VisitAt(<<1, 1>>).negate
    /\ Len(NewDiags) > 0
    /\ Visited(<<2>>) /\ ~VisitAt(<<2>>).negate

\* what C3 claims return_incorrect_type returns: the first type only when a
\* type is expected and the first type is not it
C3_ClaimedResult(t1, t2, exp) ==
    IF t1 = None \/ t2 = None THEN None
    ELSE IF t1 = t2 THEN t1
    ELSE IF exp # None /\ t1 # exp THEN t1
    ELSE t2

\* C3, as claimed: with two different types and no expected type the second
\* type is returned.
C3_Original ==
    pair.out # "unset" => pair.out = C3_ClaimedResult(pair.t1, pair.t2, pair.expected)

\* C3, amended: None if either type is None; the common type if they are equal;
\* otherwise the second type exactly when the first type is the expected one,
\* and the first type in every other case (it is not the expected type, or no
\* type is expected).
C3_ReturnIncorrectType ==
    pair.out # "unset" =>
        pair.out = IF pair.t1 = None \/ pair.t2 = None THEN None
                   ELSE IF pair.t1 = pair.t2 THEN pair.t1
                   ELSE IF pair.expected = pair.t1 THEN pair.t2
                   ELSE pair.t1

\* two different types and no expected type: the first is returned
C3_Witness ==
    /\ pair.out # "unset"
    /\ pair.t1 = "u8" /\ pair.t2 = "u16" /\ pair.expected = None
    /\ pair.out = "u8"

\* the visit of the i-th child of a visited node
HasChild(v, i) == Visited(Append(v.path, i))

Child(v, i) == VisitAt(Append(v.path, i))

BinaryVisits == {v \in Visits : v.node.k = "Binary"}

\* both operands of a binary node were given a type
BothTyped(v) ==
    /\ HasChild(v, 1) /\ HasChild(v, 2)
    /\ Child(v, 1).ty # None /\ Child(v, 2).ty # None

\* the operators the equal-type rule governs, multiply and power outside
\* their group and field cases
EqualTypeGoverned(v) ==
    \/ v.node.op \in LogicalOps \cup BitwiseOps \cup {"Add", "Sub", "Div"} \cup WrappedOps
    \/ v.node.op = "Mul" /\ Child(v, 1).ty # "group" /\ Child(v, 2).ty # "group"
    \/ v.node.op = "Pow" /\ Child(v, 1).ty # "field" /\ Child(v, 2).ty # "field"

\* C4, as claimed: a binary operation under the equal-type rule whose operands
\* have different types appends exactly one mismatch diagnostic and returns the
\* first operand's type, or the second's when the first is the expected type.
C4_EqualTypeMismatch ==
    \A v \in BinaryVisits :
        (BothTyped(v) /\ EqualTypeGoverned(v) /\ Child(v, 1).ty # Child(v, 2).ty)
        => /\ Count(Appended(v), IsMismatch) = 1
           /\ v.ty = IF Child(v, 1).ty = v.expected THEN Child(v, 2).ty ELSE Child(v, 1).ty

MulVisits == {v \in BinaryVisits : v.node.op = "Mul" /\ HasChild(v, 1) /\ HasChild(v, 2)}

\* the diagnostics a visit appended itself, not its operands' visits
Own(v) == SelectSeq(Appended(v), LAMBDA d : d.by = v.path)

\* C5: a group times a scalar, in either order, with no expected type or group
\* expected, returns group and the multiplication appends nothing; a group with
\* an operand of any other known type returns group too and reports a mismatch
\* with scalar on the other operand.
C5_GroupScalarMul ==
    \A v \in MulVisits :
        LET t1 == Child(v, 1).ty
            t2 == Child(v, 2).ty
            other == IF t1 = "group" THEN 2 ELSE 1
        IN  /\ ({t1, t2} = {"group", "scalar"} /\ v.expected \in {None, "group"})
               => v.ty = "group" /\ Own(v) = <<>>
            /\ ("group" \in {t1, t2} /\ Child(v, other).ty \notin {None, "scalar"})
               => /\ v.ty = "group"
                  /\ \E i \in DOMAIN Own(v) :
                        /\ Own(v)[i].kind = "type_should_be"
                        /\ Own(v)[i].span = NodeSpan(Child(v, other).path)
                        /\ Own(v)[i].a = Child(v, other).ty
                        /\ Own(v)[i].b = "scalar"

\* scalar * group accepted as group, and field * group reported on the field
C5_Witness ==
    \/ /\ expr = Bin("Mul", Lit("Scalar"), Lit("Group"))
       /\ expect = None /\ ret = "group" /\ NewDiags = <<>>
    \/ /\ expr = Bin("Mul", Lit("Field"), Lit("Group"))
       /\ expect = None /\ ret = "group" /\ Len(NewDiags) = 1

\* C6, as claimed: two operands of one integer type multiply to that type with
\* no diagnostic, and two of different integer types get a mismatch diagnostic,
\* with no expected type or with the left or the right type expected.
C6_MulIntegers ==
    \A v \in MulVisits :
        LET t1 == Child(v, 1).ty
            t2 == Child(v, 2).ty
        IN  (t1 \in IntegerTypes /\ t2 \in IntegerTypes /\ v.expected \in {None, t1, t2})
            => /\ t1 = t2 => v.ty = t1 /\ Own(v) = <<>>
               /\ t1 # t2 => Count(Appended(v), IsMismatch) >= 1

TernaryVisits == {v \in Visits : v.node.k = "Ternary"}

\* C7, as claimed: the condition is checked against boolean; branches of
\* different types, neither the expected one, return the first branch's type
\* with exactly one mismatch diagnostic, on the second branch.
C7_TernaryMismatch ==
    \A v \in TernaryVisits :
        /\ HasChild(v, 1) /\ Child(v, 1).expected = "boolean"
        /\ HasChild(v, 2) /\ HasChild(v, 3)
        /\ LET x == Child(v, 2)
               y == Child(v, 3)
               branches == SubSeq(sink, x.from + 1, v.to)
           IN  (x.ty # None /\ y.ty # None /\ x.ty # y.ty
                   /\ x.ty # v.expected /\ y.ty # v.expected)
               => /\ v.ty = x.ty
                  /\ Count(branches, IsMismatch) = 1
                  /\ \A i \in DOMAIN branches :
                        IsMismatch(branches[i]) => branches[i].span = NodeSpan(y.path)

\* the calls through an identifier that resolves to a function
ResolvedCalls ==
    {v \in Visits : /\ v.node.k = "Call"
                    /\ v.node.function.k = "Identifier"
                    /\ v.node.function.name \in DOMAIN Functions}

Min(a, b) == IF a <= b THEN a ELSE b

\* a known type reconciled against an expected type
Reconciled(actual, exp) == IF exp \in {None, actual} THEN actual ELSE exp

\* C8: a call of a function of n parameters with m arguments appends exactly
\* one incorrect-number-of-arguments diagnostic iff n # m, checks each of the
\* first min(n, m) arguments against the parameter type at its position, never
\* visits a later argument, and returns the declared return type reconciled
\* against the expected type whatever the arguments did.
C8_CallArity ==
    \A v \in ResolvedCalls :
        LET func == Functions[v.node.function.name]
            n == Len(func.input)
            m == Len(v.node.arguments)
        IN  /\ Count(Appended(v), LAMBDA d : d.kind = "incorrect_num_args_to_call")
                   = IF n # m THEN 1 ELSE 0
            /\ \A i \in 1..Min(n, m) :
                  /\ HasChild(v, i)
                  /\ Child(v, i).node = v.node.arguments[i]
                  /\ Child(v, i).expected = func.input[i]
                  /\ Child(v, i).returned
            /\ \A i \in (Min(n, m) + 1)..m :
                  /\ ~HasChild(v, i)
                  /\ \A k \in DOMAIN Appended(v) :
                        Appended(v)[k].span # NodeSpan(Append(v.path, i))
            /\ v.ty = Reconciled(func.output, v.expected)

\* a function of two parameters called with three arguments, the second of
\* them of the wrong type
C8_Witness ==
    /\ expr = CallOf(Ident("f2"), <<IntLit("u8", <<"1">>), IntLit("u8", <<"1">>), Lit("Boolean")>>)
    /\ expect = None
    /\ ret = "field"
    /\ Count(NewDiags, LAMBDA d : d.kind = "incorrect_num_args_to_call") = 1
    /\ Count(NewDiags, IsMismatch) = 1

\* the record initializers whose type name resolves to a declaration
ResolvedInits == {v \in Visits : v.node.k = "CircuitInit" /\ v.node.name \in DOMAIN Circuits}

\* the initializers of a declared member's name
Named(members, name) == {j \in DOMAIN members : members[j].identifier = name}

\* counts agree, and every declared member has a same-named initializer whose
\* value is a literal of the declared member type
WellFormedInit(input) ==
    LET circ == Circuits[input.name]
    IN  /\ Len(circ) = Len(input.members)
        /\ \A i \in DOMAIN circ :
              \E j \in Named(input.members, circ[i].name) :
                  /\ input.members[j].expression.k = "Literal"
                  /\ input.members[j].expression.lit # "Integer"
                  /\ LiteralType(input.members[j].expression.lit) = circ[i].ty

IsMissingMember(d, name) ==
    d.kind = "unknown_sym" /\ d.a = "circuit member variable" /\ d.b = name

Alone(c) == VisitExpression(c.node, c.expected, c.path, State(c.negate, <<>>, <<>>)).st.sink

\* the later sibling was visited, with the flag its parent was entered with,
\* and appended what it appends on its own
CheckedUndisturbed(v, i, e) ==
    /\ HasChild(v, i)
    /\ Child(v, i).node = e
    /\ Child(v, i).returned
    /\ Child(v, i).negate = v.negate
    /\ Appended(Child(v, i)) = Alone(Child(v, i))

\* C10: in every binary expression the right operand is checked and in every
\* ternary both branches are, whatever the earlier siblings appended or
\* returned, and the later sibling appends the diagnostics it appends when
\* checked on its own with the same expected type and negate flag.
C10_SiblingsChecked ==
    /\ \A v \in BinaryVisits : CheckedUndisturbed(v, 2, v.node.right)
    /\ \A v \in TernaryVisits :
          /\ CheckedUndisturbed(v, 2, v.node.if_true)
          /\ CheckedUndisturbed(v, 3, v.node.if_false)

\* a binary expression whose left operand failed with a diagnostic and whose
\* right operand then got its own
C10_Witness ==
    \E v \in BinaryVisits :
        /\ HasChild(v, 1) /\ HasChild(v, 2)
        /\ Child(v, 1).ty = None
        /\ Appended(Child(v, 1)) # <<>>
        /\ Appended(Child(v, 2)) # <<>>
        /\ v.returned

\* the position of a visit in the order the visits were entered
Pos(v) == CHOOSE i \in DOMAIN log : log[i].path = v.path

\* visit a was entered and left before visit b was entered
Precedes(a, b) == Pos(a) < Pos(b) /\ a.to <= b.from

\* the part of the sink a declared member of a record initializer accounts
\* for: the visit of its first same-named initializer, or the diagnostic
\* that reports the member missing
MemberRange(v, name) ==
    LET named == Named(v.node.members, name)
        first == CHOOSE j \in named : \A k \in named : j <= k
        missing == CHOOSE k \in (v.from + 1)..v.to :
                       sink[k].by = v.path /\ IsMissingMember(sink[k], name)
    IN  IF named = {}
        THEN [lo |-> missing - 1, hi |-> missing]
        ELSE IF HasChild(v, first)
             THEN [lo |-> Child(v, first).from, hi |-> Child(v, first).to]
             ELSE [lo |-> v.from, hi |-> v.from]

\* every visit's diagnostics lie in the order of the traversal
TraversalOrdered ==
    /\ \A v \in BinaryVisits :
          HasChild(v, 1) /\ HasChild(v, 2) /\ Precedes(Child(v, 1), Child(v, 2))
    /\ \A v \in TernaryVisits :
          /\ HasChild(v, 1) /\ HasChild(v, 2) /\ HasChild(v, 3)
          /\ Precedes(Child(v, 1), Child(v, 2))
          /\ Precedes(Child(v, 2), Child(v, 3))
    /\ \A v \in ResolvedCalls :
          \A i, j \in DOMAIN v.node.arguments :
              (i < j /\ HasChild(v, j))
              => HasChild(v, i) /\ Precedes(Child(v, i), Child(v, j))
    /\ \A v \in ResolvedInits :
          /\ \A i \in DOMAIN Circuits[v.node.name] :
                Named(v.node.members, Circuits[v.node.name][i].name) = {}
                => \E k \in (v.from + 1)..v.to :
                      /\ sink[k].by = v.path
                      /\ IsMissingMember(sink[k], Circuits[v.node.name][i].name)
          /\ \A i, j \in DOMAIN Circuits[v.node.name] :
                i < j => MemberRange(v, Circuits[v.node.name][i].name).hi
                            <= MemberRange(v, Circuits[v.node.name][j].name).lo
    /\ \A v \in Visits :
          /\ v.from <= v.to /\ v.to <= Len(sink)
          /\ \A c \in Visits :
                (Len(c.path) = Len(v.path) + 1 /\ SubSeq(c.path, 1, Len(v.path)) = v.path)
                => v.from <= c.from /\ c.to <= v.to

\* the sink before a step is a prefix of the sink after it
SinkGrows == Len(sink) <= Len(sink') /\ SubSeq(sink', 1, Len(sink)) = sink

\* C11: diagnostics are appended in traversal order: left operand before right
\* operand, condition before true branch before false branch, arguments by
\* position, the members of a record initializer in declaration order whatever
\* the order they were written in; and the sink only grows, its earlier
\* content a prefix of its later content.
C11_TraversalOrder == []TraversalOrdered /\ [][SinkGrows]_vars

\* {b: 1field, a: true} for the declaration {a: field, b: boolean}: the
\* diagnostic of a's initializer, written second, comes first
C11_Witness ==
    /\ expr = InitOf("Token", <<Member("b", Lit("Field")), Member("a", Lit("Boolean"))>>)
    /\ Len(NewDiags) = 2
    /\ NewDiags[1].span = NodeSpan(<<2>>)
    /\ NewDiags[2].span = NodeSpan(<<1>>)

\* visit c is the visit of v's node or of a node below it
Within(c, v) ==
    Len(v.path) <= Len(c.path) /\ SubSeq(c.path, 1, Len(v.path)) = v.path

\* no Err placeholder was visited at or below the node
NoErrInside(v) == \A c \in Visits : Within(c, v) => c.node.k # "Err"

\* C12, as claimed: whenever the check of an expression that is not an Err
\* placeholder (here: that has none inside it either) returns no type, at
\* least one diagnostic was appended during that check.
C12_NoneExplained ==
    \A v \in Visits :
        (v.returned /\ NoErrInside(v) /\ v.ty = None) => v.from < v.to

\* C13, as claimed: a shift or wrapped power with a left operand of integer
\* type T and a right operand of a magnitude type returns T, never the type of
\* the shift amount, with no destination and with destination T.
C13_ShiftType ==
    \A v \in BinaryVisits :
        (/\ v.node.op \in ShiftOps
         /\ BothTyped(v)
         /\ Appended(Child(v, 1)) = <<>>
         /\ Child(v, 1).ty \in IntegerTypes
         /\ Child(v, 2).ty \in MagnitudeTypes
         /\ v.expected \in {None, Child(v, 1).ty})
        => v.ty = Child(v, 1).ty

UnaryVisits == {v \in Visits : v.node.k = "Unary"}

\* C14, as claimed: the operand of inverse and of square is checked against
\* field: an operand of a known type other than field always gets a
\* type-mismatch diagnostic, with an expected type and without one.
C14_InverseSquareField ==
    \A v \in UnaryVisits :
        (/\ v.node.op \in {"Inverse", "Square"}
         /\ HasChild(v, 1)
         /\ Child(v, 1).ty \notin {None, "field"})
        => Count(Appended(v), IsMismatch) >= 1

CompareVisits == {v \in BinaryVisits : v.node.op \in CompareOps}

\* the types an ordering requires on both sides alike
ExactCompareTypes == {"address", "field", "scalar"}

\* the diagnostics of a visit itself at the span of one of its operands
OnOperands(v) ==
    SelectSeq(Own(v), LAMBDA d : d.span \in {NodeSpan(Append(v.path, 1)),
                                              NodeSpan(Append(v.path, 2))})

\* the diagnostics of a visit itself at its own span
OnNode(v) == SelectSeq(Own(v), LAMBDA d : d.span = NodeSpan(v.path))

\* C15: an ordering of two typed operands reports a mismatch when one is
\* address, field or scalar and the other is not of that same type, or when
\* one is an integer, neither is address, field or scalar, and the other is
\* not an integer of some width; otherwise it reports none; the result is
\* boolean, with a mismatch reported when another type is expected.
C15_CompareCategories ==
    \A v \in CompareVisits :
        BothTyped(v)
        => LET t1 == Child(v, 1).ty
               t2 == Child(v, 2).ty
               mismatch ==
                   IF t1 \in ExactCompareTypes \/ t2 \in ExactCompareTypes
                   THEN t1 # t2
                   ELSE IF t1 \in IntegerTypes \/ t2 \in IntegerTypes
                        THEN ~(t1 \in IntegerTypes /\ t2 \in IntegerTypes)
                        ELSE FALSE
           IN  /\ Len(OnOperands(v)) = IF mismatch THEN 1 ELSE 0
               /\ \A i \in DOMAIN OnOperands(v) : IsMismatch(OnOperands(v)[i])
               /\ v.ty = "boolean"
               /\ Len(OnNode(v)) = IF v.expected \in {None, "boolean"} THEN 0 ELSE 1
               /\ \A i \in DOMAIN OnNode(v) : IsMismatch(OnNode(v)[i])
               /\ Len(Own(v)) = Len(OnOperands(v)) + Len(OnNode(v))

\* an integer ordered against a boolean: one diagnostic, and boolean
C15_Witness ==
    /\ expr = Bin("Lt", Ident("x"), Lit("Boolean"))
    /\ expect = None
    /\ ret = "boolean"
    /\ Len(NewDiags) = 1
    /\ IsMismatch(NewDiags[1])

\* C16, as claimed: a check against an expected type E that appends no
\* diagnostic and returns a type returns E.
C16_Soundness ==
    \A v \in Visits :
        (v.returned /\ v.expected # None /\ v.ty # None /\ Appended(v) = <<>>)
        => v.ty = v.expected

\* visit p is the visit of a negate operator above the node of visit c
NegateAbove(p, c) ==
    /\ p.node.k = "Unary" /\ p.node.op = "Negate"
    /\ Len(p.path) < Len(c.path)
    /\ SubSeq(c.path, 1, Len(p.path)) = p.path

\* C17: in a pass started with the negate flag false, the flag is true while a
\* node is checked iff the node lies in the operand of some enclosing negate,
\* at any depth and through binary, ternary, call and record-initializer
\* nodes, a negate of a negate included; so a signed literal of magnitude
\* 2^(w-1) is accepted anywhere under a negate.
C17_NegateScope ==
    entry.negate = FALSE
    => /\ \A v \in Visits : v.negate <=> \E p \in Visits : NegateAbove(p, v)
       /\ \A v \in IntegerLiteralVisits :
             (/\ v.node.ty \in SignedTypes
              /\ StripZeros(v.node.text) = MinText(v.node.ty)
              /\ \E p \in Visits : NegateAbove(p, v))
             => Accepted(v)

\* -(-128i8): the literal is checked with the flag set and nothing is reported
C17_Witness ==
    /\ expr = Negated(IntLit("i8", <<"1", "2", "8">>), 2)
    /\ entry.negate = FALSE
    /\ Visited(<<1, 1>>) /\ VisitAt(<<1, 1>>).negate
    /\ NewDiags = <<>>
    /\ ret = "i8"

====
